---- MODULE Spec2Model ----
(***************************************************************************)
(* CEASIOMpy CPACS2GMSH: a model of                                        *)
(*   src/ceasiompy/CPACS2GMSH/func/generategmesh.py  (topology             *)
(*       reconciliation after the fragment operation, boundary partition,  *)
(*       mesh sizes, the meshing run), and                                 *)
(*   src/ceasiompy/CPACS2GMSH/func/advancemeshing.py (mesh field           *)
(*       composition, area measurement).                                   *)
(*                                                                         *)
(* The gmsh kernel is external.  What it answers to a query (the children  *)
(* of a fragment, the boundary of a volume, the part type of a file, the   *)
(* sections of a wing, a plugin that fails) is an input, drawn from a      *)
(* bounded set where the code makes the call.  Python lists that the code  *)
(* only tests for membership or turns into a set are sets here; a list     *)
(* whose order the code depends on is a sequence.                          *)
(***************************************************************************)
EXTENDS Integers, Sequences, FiniteSets, TLC

\* ------------------------------------------------------------------ bounds
\* number of imported parts (brep files), at most
MaxParts == 3
\* number of volumes the fragment operation leaves in the model
MaxVol == 2
\* surface tags 1..MaxSurf
MaxSurf == 3

VARIABLES
    pc,                     \* position in the routine that is running
    error,                  \* the exception that ended the run, or "none"
    \* --- generate_gmsh, topology reconciliation (lines 272-527)
    symmetry,               \* the symmetry argument
    children_dimtag,        \* second result of gmsh.model.occ.fragment
    model_volumes,          \* the kernel's entities of dimension 3
    aircraft_parts,         \* list of ModelPart
    unwanted_children,
    good_children,
    final_domain,
    aircraft,
    farfield_surfaces,      \* a list: iterated while elements are removed
    farfield_surfaces_tags,
    farfield_points,
    symmetry_surfaces,
    symmetry_surfaces_tags,
    physical_groups,        \* the kernel's physical groups, in creation order
    \* --- advancemeshing.py: the mesh fields
    mesh_fields,            \* the dict {"nbfields", "restrict_fields"}
    fields,                 \* the kernel's mesh fields, one per field.add call
    background,             \* the arguments of setAsBackgroundMesh, in order
    options,                \* the Mesh.* options that were set to 0
    views,                  \* the kernel's post-processing views (tags)
    log,                    \* the records written to the logger by the routines
    call,                   \* the routine called last, with its arguments
    returned,               \* <<value>> returned by that call, <<>> if it raised
    ncalls,                 \* number of routine calls made in this run
    \* --- generate_gmsh, mesh generation (lines 532-636)
    refine_factor,          \* the refine_factor argument
    point_size,             \* per point, <<size>> set by mesh.setSize or <<>>
    mesh_calls              \* the kernel's mesh.generate/optimize calls, in order

geomVars == <<symmetry, children_dimtag, model_volumes, aircraft_parts,
              unwanted_children, good_children, final_domain, aircraft,
              farfield_surfaces, farfield_surfaces_tags, farfield_points,
              symmetry_surfaces, symmetry_surfaces_tags>>

topoVars == <<geomVars, physical_groups>>

meshVars == <<refine_factor, point_size, mesh_calls>>

fieldVars == <<mesh_fields, fields, background, options, views, log, call, returned,
              ncalls>>

vars == <<pc, error, topoVars, fieldVars, meshVars>>

\* the state of the mesh fields before any routine has run (line 562)
NoFields ==
    /\ mesh_fields = [nbfields |-> 0, restrict_fields |-> <<>>]
    /\ fields = <<>>
    /\ background = <<>>
    /\ options = {}
    /\ views = <<>>
    /\ log = <<>>
    /\ call = [routine |-> "none"]
    /\ returned = <<>>
    /\ ncalls = 0
    /\ refine_factor = 4
    /\ point_size = <<>>
    /\ mesh_calls = <<>>

\* ------------------------------------------------------------ entity model
\* a dimtag is <<dim, tag>>
DimTags(dim, tags) == {<<dim, t>> : t \in tags}

TagsOf(dimtags) == {dt[2] : dt \in dimtags}

Surfs == 1..MaxSurf

\* the non-empty sets of surfaces a volume can have as boundary
Boundaries == (SUBSET Surfs) \ {{}}

\* gmsh.model.getBoundary([surface], recursive=False) and the downward
\* adjacencies of getAdjacencies(2, tag): the surfaces form a strip, surface
\* s lies between curves s and s+1
SurfLines(s) == {s, s + 1}

\* curve l lies between points l and l+1
LinePoints(l) == {l, l + 1}

\* gmsh.model.getBoundary([surface], recursive=True)
SurfPoints(s) == UNION {LinePoints(l) : l \in SurfLines(s)}

\* the stem of the k-th brep file of the sorted list (lines 272-273, 292)
BrepStem(k) == <<"brep", k>>

\* ModelPart.__init__.  mesh_size and wing_sections are no attributes of a new
\* object: they are assigned at lines 541/547 and by classify_wing, and are
\* <<>> as long as the object does not have them.
ModelPart(uid) ==
    [uid |-> uid, part_type |-> "",
     points |-> {}, lines |-> {}, surfaces |-> {}, volume |-> {},
     points_tags |-> {}, lines_tags |-> {}, surfaces_tags |-> {},
     volume_tag |-> {},
     children_dimtag |-> {},
     mesh_size |-> <<>>, wing_sections |-> <<>>]

\* get_entities_from_volume, given the kernel's answer to the first
\* getBoundary call: the surfaces that bound the volume
get_entities_from_volume(boundary) ==
    [surfaces |-> DimTags(2, boundary),
     lines |-> DimTags(1, UNION {SurfLines(s) : s \in boundary}),
     points |-> DimTags(0, UNION {SurfPoints(s) : s \in boundary})]

\* ModelPart.associate_child_to_parent
associate_child_to_parent(self, child_dimtag, boundary) ==
    LET child == get_entities_from_volume(boundary) IN
    [self EXCEPT
        !.points = @ \cup child.points,
        !.lines = @ \cup child.lines,
        !.surfaces = @ \cup child.surfaces,
        !.volume = @ \cup {child_dimtag},
        !.points_tags = @ \cup TagsOf(child.points),
        !.lines_tags = @ \cup TagsOf(child.lines),
        !.surfaces_tags = @ \cup TagsOf(child.surfaces),
        !.volume_tag = @ \cup {child_dimtag[2]}]

\* mutant of clean_inside_entities: the curves are not intersected
clean_inside_entities_KeepLines(self, fd) ==
    [self EXCEPT
        !.surfaces = @ \cap fd.surfaces,
        !.points = @ \cap fd.points,
        !.surfaces_tags = @ \cap fd.surfaces_tags,
        !.points_tags = @ \cap fd.points_tags]

\* ModelPart.clean_inside_entities
clean_inside_entities(self, fd) ==
    [self EXCEPT
        !.surfaces = @ \cap fd.surfaces,
        !.lines = @ \cap fd.lines,
        !.points = @ \cap fd.points,
        !.surfaces_tags = @ \cap fd.surfaces_tags,
        !.lines_tags = @ \cap fd.lines_tags,
        !.points_tags = @ \cap fd.points_tags]

\* gmsh.model.addPhysicalGroup followed by setPhysicalName: the kernel gives
\* the group the next free tag of its dimension
NextGroupTag(groups, dim) ==
    LET used == {groups[g].tag : g \in {h \in 1..Len(groups) : groups[h].dim = dim}} IN
    IF used = {} THEN 1 ELSE 1 + (CHOOSE t \in used : \A u \in used : u <= t)

addPhysicalGroup(groups, dim, tags, name) ==
    Append(groups, [dim |-> dim, tag |-> NextGroupTag(groups, dim),
                    tags |-> tags, name |-> name])

\* ------------------------------------------------------------- list helpers
RemoveAt(s, k) == SubSeq(s, 1, k - 1) \o SubSeq(s, k + 1, Len(s))

\* the orders in which list(set(...)) can hold the elements of a set
OrdersOf(S) ==
    {f \in [1..Cardinality(S) -> S] : \A a, b \in 1..Cardinality(S) : f[a] = f[b] => a = b}

Range(s) == {s[k] : k \in 1..Len(s)}

\* ------------------------------------------- generate_gmsh: lines 272-398
\* The fragment of the far field with n parts (and the symmetry box when
\* symmetry is on).  Volumes 1..MaxVol lie outside the symmetry box, and
\* parents[v] is the set of parts volume v was generated from (none: it is
\* far field only).  With symmetry, SymVol is what lies inside the box, and
\* parents[SymVol] the parts that reach into it.  The list children_dimtag
\* has the far field's children first, then those of every part in the order
\* of import, then those of the symmetry box.
SymVol == MaxVol + 1

FragmentResult(n, sym, parents) ==
    <<DimTags(3, 1..MaxVol)>> \o
    [k \in 1..n |-> DimTags(3, {v \in DOMAIN parents : k \in parents[v]})] \o
    (IF sym THEN <<DimTags(3, {SymVol})>> ELSE <<>>)

InitTopo ==
    \E n \in 1..MaxParts, sym \in BOOLEAN :
      \E parents \in [1..(IF sym THEN SymVol ELSE MaxVol) -> SUBSET (1..n)] :
        \* a solid that is fragmented leaves at least one volume
        /\ \A k \in 1..n : \E v \in DOMAIN parents : k \in parents[v]
        /\ symmetry = sym
        /\ children_dimtag = FragmentResult(n, sym, parents)
        /\ model_volumes = DimTags(3, DOMAIN parents)
        /\ aircraft_parts = [k \in 1..n |-> ModelPart(BrepStem(k))]
        /\ unwanted_children = {}
        /\ good_children = {}
        /\ final_domain = ModelPart(<<"none">>)
        /\ aircraft = ModelPart(<<"none">>)
        /\ farfield_surfaces = <<>>
        /\ farfield_surfaces_tags = {}
        /\ farfield_points = {}
        /\ symmetry_surfaces = <<>>
        /\ symmetry_surfaces_tags = <<>>
        /\ physical_groups = <<>>
        /\ pc = "fragmented"
        /\ error = "none"
        /\ NoFields

\* lines 377-398: the children of the symmetry box are removed from the model
\* and every part gets its children that are not among them
SymmetryChildren(sym, cd) == IF sym THEN cd[Len(cd)] ELSE {}

ZipChildren(parts, cd, unwanted) ==
    [k \in 1..Len(parts) |->
        IF k <= Len(cd) - 1
        THEN [parts[k] EXCEPT !.children_dimtag = cd[k + 1] \ unwanted]
        ELSE parts[k]]

AssignChildren ==
    /\ pc = "fragmented"
    /\ LET unwanted == SymmetryChildren(symmetry, children_dimtag) IN
        /\ unwanted_children' = unwanted
        /\ model_volumes' = model_volumes \ unwanted
        /\ aircraft_parts' = ZipChildren(aircraft_parts, children_dimtag, unwanted)
    \* the fragment's result is not read after line 388: it is dropped here
    /\ children_dimtag' = <<>>
    /\ pc' = "children_assigned"
    /\ UNCHANGED <<fieldVars, meshVars, error, symmetry, good_children, final_domain,
                   aircraft, farfield_surfaces, farfield_surfaces_tags,
                   farfield_points, symmetry_surfaces, symmetry_surfaces_tags,
                   physical_groups>>

\* lines 400-404: "for parent in aircraft_parts: ... aircraft_parts.remove(parent)".
\* The list iterator holds an index idx into the list that is being changed.
RECURSIVE RemoveEmptyParents(_, _)
RemoveEmptyParents(parts, idx) ==
    IF idx > Len(parts) THEN parts
    ELSE IF parts[idx].children_dimtag = {}
         THEN RemoveEmptyParents(RemoveAt(parts, idx), idx + 1)
         ELSE RemoveEmptyParents(parts, idx + 1)

RemoveParents ==
    /\ pc = "children_assigned"
    /\ aircraft_parts' = RemoveEmptyParents(aircraft_parts, 1)
    /\ pc' = "parents_removed"
    /\ UNCHANGED <<fieldVars, meshVars, error, symmetry, children_dimtag, model_volumes,
                   unwanted_children, good_children, final_domain,
                   aircraft, farfield_surfaces, farfield_surfaces_tags,
                   farfield_points, symmetry_surfaces, symmetry_surfaces_tags,
                   physical_groups>>

\* mutant of SharedChildren: the difference instead of the intersection
SharedChildren_Difference(part, other_part) ==
    part.children_dimtag \ other_part.children_dimtag

\* line 415
SharedChildren(part, other_part) ==
    part.children_dimtag \cap other_part.children_dimtag

\* lines 411-421: the two nested loops over aircraft_parts; i and j are the
\* positions of part and other_part.  The result is <<parts, unwanted>>.
RECURSIVE OverlapLoop(_, _, _, _)
OverlapLoop(parts, i, j, unwanted) ==
    IF i > Len(parts) THEN <<parts, unwanted>>
    ELSE IF j > Len(parts) THEN OverlapLoop(parts, i + 1, 1, unwanted)
    ELSE IF i = j THEN OverlapLoop(parts, i, j + 1, unwanted)
    ELSE LET shared == SharedChildren(parts[i], parts[j])
             cleaned == [parts EXCEPT
                            ![i].children_dimtag = @ \ shared,
                            ![j].children_dimtag = @ \ shared]
         IN OverlapLoop(IF shared # {} THEN cleaned ELSE parts,
                        i, j + 1, unwanted \cup shared)

\* lines 409-429
DetectOverlaps ==
    /\ pc = "parents_removed"
    /\ LET r == OverlapLoop(aircraft_parts, 1, 1, {}) IN
        /\ aircraft_parts' = r[1]
        /\ unwanted_children' = r[2]
        /\ model_volumes' = model_volumes \ r[2]
    /\ pc' = "overlaps_removed"
    /\ UNCHANGED <<fieldVars, meshVars, error, symmetry, children_dimtag, good_children, final_domain,
                   aircraft, farfield_surfaces, farfield_surfaces_tags,
                   farfield_points, symmetry_surfaces, symmetry_surfaces_tags,
                   physical_groups>>

\* line 436: the children of a part that are associated with it
GoodChildrenOf(part, unwanted) ==
    {child \in part.children_dimtag : child \notin unwanted}

\* lines 435-440 for one parent; boundary[child] is the kernel's answer to
\* getBoundary for that child
RECURSIVE AssociateAll(_, _, _)
AssociateAll(parent, children, boundary) ==
    IF children = {} THEN parent
    ELSE LET child == CHOOSE c \in children : TRUE IN
         AssociateAll(associate_child_to_parent(parent, child, boundary[child]),
                      children \ {child}, boundary)

\* lines 431-440
AssociateChildren ==
    /\ pc = "overlaps_removed"
    /\ LET good == UNION {GoodChildrenOf(aircraft_parts[k], unwanted_children) :
                            k \in 1..Len(aircraft_parts)} IN
        /\ good_children' = good
        /\ \E boundary \in [good -> Boundaries] :
            aircraft_parts' =
                [k \in 1..Len(aircraft_parts) |->
                    AssociateAll(aircraft_parts[k],
                                 GoodChildrenOf(aircraft_parts[k], unwanted_children),
                                 boundary)]
    /\ pc' = "children_associated"
    /\ UNCHANGED <<fieldVars, meshVars, error, symmetry, children_dimtag, model_volumes,
                   unwanted_children, final_domain,
                   aircraft, farfield_surfaces, farfield_surfaces_tags,
                   farfield_points, symmetry_surfaces, symmetry_surfaces_tags,
                   physical_groups>>

\* mutant of FindFinalDomain: one of several volumes is taken as the final
\* domain
FindFinalDomain_TakeAny ==
    /\ pc = "children_associated"
    /\ model_volumes' = model_volumes \ good_children
    /\ IF model_volumes' # {}
       THEN /\ \E boundary \in Boundaries :
                 final_domain' =
                     associate_child_to_parent(
                         ModelPart(<<"fluid">>),
                         CHOOSE v \in model_volumes' : TRUE,
                         boundary)
            /\ pc' = "final_domain_found"
            /\ error' = error
       ELSE /\ pc' = "aborted"
            /\ error' = "TypeError"
            /\ final_domain' = ModelPart(<<"fluid">>)
    /\ UNCHANGED <<fieldVars, meshVars, symmetry, children_dimtag, aircraft_parts,
                   unwanted_children, good_children,
                   aircraft, farfield_surfaces, farfield_surfaces_tags,
                   farfield_points, symmetry_surfaces, symmetry_surfaces_tags,
                   physical_groups>>

\* lines 444-451: the good children are removed from the model and the
\* volumes that are left are unpacked into the one argument of
\* associate_child_to_parent, which raises TypeError unless exactly one is left
FindFinalDomain ==
    /\ pc = "children_associated"
    /\ model_volumes' = model_volumes \ good_children
    /\ IF Cardinality(model_volumes') = 1
       THEN /\ \E boundary \in Boundaries :
                 final_domain' =
                     associate_child_to_parent(
                         ModelPart(<<"fluid">>),
                         CHOOSE v \in model_volumes' : TRUE,
                         boundary)
            /\ pc' = "final_domain_found"
            /\ error' = error
       ELSE /\ pc' = "aborted"
            /\ error' = "TypeError"
            /\ final_domain' = ModelPart(<<"fluid">>)
    /\ UNCHANGED <<fieldVars, meshVars, symmetry, children_dimtag, aircraft_parts,
                   unwanted_children, good_children,
                   aircraft, farfield_surfaces, farfield_surfaces_tags,
                   farfield_points, symmetry_surfaces, symmetry_surfaces_tags,
                   physical_groups>>

\* lines 467-479: the aircraft part collects the entities of the cleaned parts
Aggregate(parts) ==
    LET all(f) == UNION {parts[k][f] : k \in 1..Len(parts)} IN
    [ModelPart(<<"aircraft">>) EXCEPT
        !.points = all("points"), !.lines = all("lines"),
        !.surfaces = all("surfaces"), !.volume = all("volume"),
        !.points_tags = all("points_tags"), !.lines_tags = all("lines_tags"),
        !.surfaces_tags = all("surfaces_tags"), !.volume_tag = all("volume_tag")]

\* lines 481-482 for all the parts, in the order of the list
RECURSIVE AddPartGroups(_, _, _)
AddPartGroups(groups, parts, k) ==
    IF k > Len(parts) THEN groups
    ELSE AddPartGroups(
             addPhysicalGroup(groups, 2, parts[k].surfaces_tags, parts[k].uid),
             parts, k + 1)


\* lines 466-484
CleanParts ==
    /\ pc = "final_domain_found"
    /\ LET cleaned == [k \in 1..Len(aircraft_parts) |->
                          clean_inside_entities(aircraft_parts[k], final_domain)] IN
        /\ aircraft_parts' = cleaned
        /\ aircraft' = Aggregate(cleaned)
        /\ physical_groups' = AddPartGroups(physical_groups, cleaned, 1)
    /\ pc' = "model_cleaned"
    /\ UNCHANGED <<fieldVars, meshVars, error, symmetry, children_dimtag, model_volumes,
                   unwanted_children, good_children, final_domain,
                   farfield_surfaces, farfield_surfaces_tags,
                   farfield_points, symmetry_surfaces, symmetry_surfaces_tags>>

\* mutant of FarfieldSurfaces: the aircraft's surfaces are not taken out
FarfieldSurfaces_All(fd, ac) == fd.surfaces

\* lines 490-492
FarfieldSurfaces(fd, ac) == fd.surfaces \ ac.surfaces

\* mutant of FarfieldPoints: the aircraft's points are not taken out
FarfieldPoints_All(fd, ac) == fd.points

FarfieldPoints(fd, ac) == fd.points \ ac.points

FarfieldSurfacesTags(fd, ac) == fd.surfaces_tags \ ac.surfaces_tags

\* line 509: the surface has an adjacent curve that the aircraft owns
TouchesAircraft(surface, ac) == SurfLines(surface[2]) \cap ac.lines_tags # {}

\* lines 506-515: "for farfield_surface in farfield_surfaces: ...
\* farfield_surfaces.remove(farfield_surface)"; idx is the list iterator's
\* index.  The result is <<farfield_surfaces, farfield_surfaces_tags,
\* symmetry_surfaces, symmetry_surfaces_tags>>.
RECURSIVE SymmetryLoop(_, _, _, _, _, _)
SymmetryLoop(ff, idx, fftags, sym, symtags, ac) ==
    IF idx > Len(ff) THEN <<ff, fftags, sym, symtags>>
    ELSE IF TouchesAircraft(ff[idx], ac)
         THEN SymmetryLoop(RemoveAt(ff, idx), idx + 1, fftags \ {ff[idx][2]},
                           Append(sym, ff[idx]), Append(symtags, ff[idx][2]), ac)
         ELSE SymmetryLoop(ff, idx + 1, fftags, sym, symtags, ac)

\* lines 486-521
PartitionBoundary ==
    /\ pc = "model_cleaned"
    /\ farfield_points' = FarfieldPoints(final_domain, aircraft)
    /\ \E order \in OrdersOf(FarfieldSurfaces(final_domain, aircraft)) :
        LET tags == FarfieldSurfacesTags(final_domain, aircraft)
            r == SymmetryLoop(order, 1, tags, <<>>, <<>>, aircraft)
        IN IF symmetry
           THEN /\ farfield_surfaces' = r[1]
                /\ farfield_surfaces_tags' = r[2]
                /\ symmetry_surfaces' = r[3]
                /\ symmetry_surfaces_tags' = r[4]
                /\ physical_groups' =
                      addPhysicalGroup(
                          addPhysicalGroup(physical_groups, 2, Range(r[4]), <<"symmetry">>),
                          2, r[2], <<"Farfield">>)
           ELSE /\ farfield_surfaces' = order
                /\ farfield_surfaces_tags' = tags
                /\ UNCHANGED <<symmetry_surfaces, symmetry_surfaces_tags>>
                /\ physical_groups' =
                      addPhysicalGroup(physical_groups, 2, tags, <<"Farfield">>)
    /\ pc' = "boundary_partitioned"
    /\ UNCHANGED <<fieldVars, meshVars, error, symmetry, children_dimtag, model_volumes, aircraft_parts,
                   unwanted_children, good_children, final_domain, aircraft>>

\* lines 523-528
FluidGroup ==
    /\ pc = "boundary_partitioned"
    /\ physical_groups' =
          addPhysicalGroup(physical_groups, 3, final_domain.volume_tag, final_domain.uid)
    /\ pc' = "markers_generated"
    /\ UNCHANGED <<fieldVars, meshVars, error, symmetry, children_dimtag, model_volumes, aircraft_parts,
                   unwanted_children, good_children, final_domain, aircraft,
                   farfield_surfaces, farfield_surfaces_tags,
                   farfield_points, symmetry_surfaces, symmetry_surfaces_tags>>

NextTopo ==
    \/ AssignChildren
    \/ RemoveParents
    \/ DetectOverlaps
    \/ AssociateChildren
    \/ FindFinalDomain
    \/ CleanParts
    \/ PartitionBoundary
    \/ FluidGroup

SpecTopo == InitTopo /\ [][NextTopo]_vars

\* ======================================================= advancemeshing.py
\* Lengths and mesh sizes are in hundredths of the unit of length, areas in
\* their squares.  A float that the code gets by division is a pair
\* <<numerator, denominator>>; a denominator of 0 is the inf that numpy gives
\* for a division by a zero float64.
\* One statement after another: v is the state the first statement leaves,
\* computed once, and Op what the rest of the routine does from there
Then(v, Op(_)) == CHOOSE r \in {Op(x) : x \in {v}} : TRUE

RatGt(a, b) == a[1] * b[2] > b[1] * a[2]

RatEq(a, b) == a[1] * b[2] = b[1] * a[2]

\* The routines of advancemeshing.py change the dict mesh_fields and the
\* kernel session.  K bundles both, with the exception raised (err) and the
\* value returned (ret), so that a routine is an operator from K to K.
Kernel(mf, fl, bg, op, gr, vw, lg) ==
    [mf |-> mf, fields |-> fl, background |-> bg, options |-> op,
     groups |-> gr, views |-> vw, log |-> lg, err |-> "none", ret |-> <<>>]

Raise(k, exception) == [k EXCEPT !.err = exception]

\* a field of the kernel as gmsh.model.mesh.field.add creates it: no
\* property is set (<<>>)
NewField(kind, index) ==
    [kind |-> kind, index |-> index, InField |-> <<>>, list |-> "none",
     tags |-> {}, FieldsList |-> <<>>, Sampling |-> <<>>,
     SizeMin |-> <<>>, SizeMax |-> <<>>, F |-> <<>>]

\* mutant of AddNextField: the counter is not incremented
AddNextField_NoIncrement(k, kind) ==
    [k EXCEPT !.fields = Append(@, NewField(kind, k.mf.nbfields))]

\* mesh_fields["nbfields"] += 1 followed by
\* gmsh.model.mesh.field.add(kind, mesh_fields["nbfields"])
AddNextField(k, kind) ==
    LET n == k.mf.nbfields + 1 IN
    [k EXCEPT !.mf.nbfields = n, !.fields = Append(@, NewField(kind, n))]

\* gmsh.model.mesh.field.setNumber / setNumbers / setString on field index
SetProp(k, index, prop, value) ==
    [k EXCEPT !.fields =
        [i \in 1..Len(@) |->
            IF @[i].index = index THEN [@[i] EXCEPT ![prop] = value] ELSE @[i]]]

\* lines 63-68
DistanceDimList(dim) ==
    IF dim = 1 THEN "CurvesList"
    ELSE IF dim = 2 THEN "SurfacesList"
    ELSE "ValueError"

\* distance_field, lines 60-73
distance_field(k, dim, object_tags) ==
    LET k1 == AddNextField(k, "Distance")
        n == k1.mf.nbfields
        dim_list == DistanceDimList(dim)
    IN IF dim_list = "ValueError" THEN Raise(k1, "ValueError")
       ELSE SetProp(SetProp(SetProp(k1, n, "list", dim_list),
                            n, "tags", object_tags),
                    n, "Sampling", <<100>>)

\* mutant of RestrictDimList: a curve list is accepted for dimension 1
RestrictDimList_Lenient(dim) ==
    IF dim = 1 THEN "CurvesList"
    ELSE IF dim = 2 THEN "SurfacesList"
    ELSE IF dim = 3 THEN "VolumesList"
    ELSE "ValueError"

\* lines 106-111
RestrictDimList(dim) ==
    IF dim = 2 THEN "SurfacesList"
    ELSE IF dim = 3 THEN "VolumesList"
    ELSE "ValueError"

\* mutant of RestrictSource: the argument infield is not used
RestrictSource_LastField(infield, n) == n - 1

\* lines 102-103: infield is <<>> for None, <<i>> for the index i
RestrictSource(infield, nbfields) ==
    IF infield = <<>> THEN nbfields - 1 ELSE infield[1]

\* restrict_fields, lines 98-118
restrict_fields(k, dim, object_tags, infield) ==
    LET k1 == AddNextField(k, "Restrict")
        n == k1.mf.nbfields
        k2 == SetProp(k1, n, "InField", <<RestrictSource(infield, n)>>)
        dim_list == RestrictDimList(dim)
    IN IF dim_list = "ValueError" THEN Raise(k2, "ValueError")
       ELSE [SetProp(SetProp(k2, n, "list", dim_list), n, "tags", object_tags)
                EXCEPT !.mf.restrict_fields = Append(@, n)]

\* mutant of min_fields: the field is not set as the background mesh
min_fields_NoBackground(k) ==
    LET k1 == AddNextField(k, "Min") IN
    SetProp(k1, k1.mf.nbfields, "FieldsList", k1.mf.restrict_fields)

\* min_fields, lines 141-154 (and the same statements at lines 593-604 of
\* generategmesh.py)
min_fields(k) ==
    LET k1 == AddNextField(k, "Min")
        n == k1.mf.nbfields
    IN [SetProp(k1, n, "FieldsList", k1.mf.restrict_fields) EXCEPT
           !.background = Append(@, n),
           !.options = @ \cup {"Mesh.MeshSizeExtendFromBoundary",
                               "Mesh.MeshSizeFromPoints",
                               "Mesh.MeshSizeFromCurvature"}]

\* lines 355-362, 309-315, 439-445, 519-525: a Threshold field on the field
\* created just before it, with one size as SizeMin and SizeMax
threshold_field(k, size) ==
    LET k1 == AddNextField(k, "Threshold")
        n == k1.mf.nbfields
    IN SetProp(SetProp(SetProp(k1, n, "InField", <<n - 1>>),
                       n, "SizeMin", <<size>>),
               n, "SizeMax", <<size>>)

\* ---------------------------------------------------- refine_wing_section
\* line 271, of the three distances between the centres of mass of the curves
Min3(d) ==
    CHOOSE t \in {d[1], d[2], d[3]} : \A u \in {d[1], d[2], d[3]} : t <= u

\* mutant of TruncatedRefine: the factor is not doubled
TruncatedRefine_NoDouble(lines_to_refine, d, mesh_size_wings, refine) ==
    IF Len(lines_to_refine) = 3
    THEN IF RatGt(<<mesh_size_wings, Min3(d)>>, refine)
         THEN <<mesh_size_wings, Min3(d)>>
         ELSE refine
    ELSE refine

\* lines 260-280: the refinement factor of a section; d are the distances
\* d12, d13, d23 that lines 263-269 compute
TruncatedRefine(lines_to_refine, d, mesh_size_wings, refine) ==
    IF Len(lines_to_refine) = 3
    THEN IF RatGt(<<mesh_size_wings, Min3(d)>>, refine)
         THEN <<2 * mesh_size_wings, Min3(d)>>
         ELSE refine
    ELSE refine

\* lines 282-317 for one section
WingSectionFields(k, a, wing_section, refine) ==
    LET lines_to_refine == wing_section.lines_tags
        math_eval(k2) ==
            SetProp(k2, k2.mf.nbfields, "F",
                    [law |-> "refine", size |-> a.mesh_size_wings,
                     refine |-> refine, F |-> k2.mf.nbfields - 1,
                     x_chord |-> <<wing_section.mean_chord * a.chord_percent, 100>>,
                     n_power |-> a.n_power])
    IN Then(distance_field(k, 1, Range(lines_to_refine)), LAMBDA k1 :
       Then(AddNextField(k1, "MathEval"), LAMBDA k2 :
       Then(math_eval(k2), LAMBDA k3 :
       Then(restrict_fields(k3, 2, a.aircraft_surfaces_tags, <<>>), LAMBDA k4 :
       Then(restrict_fields(k4, 3, a.final_domain_volume_tag, <<k2.mf.nbfields>>),
            LAMBDA k5 :
       Then(distance_field(k5, 1, Range(lines_to_refine)), LAMBDA k6 :
       Then(threshold_field(k6, a.mesh_size_wings), LAMBDA k7 :
       restrict_fields(k7, 2, a.surfaces_wing, <<>>))))))))

\* lines 253-317: the loop over wing_part.wing_sections; refine is the local
\* variable of the routine.  The result is [k, refine].
RECURSIVE WingSectionLoop(_, _, _, _, _)
WingSectionLoop(k, a, wing_sections, idx, refine) ==
    IF idx > Len(wing_sections) THEN [k |-> k, refine |-> refine]
    ELSE LET r == TruncatedRefine(wing_sections[idx].lines_tags, wing_sections[idx].d,
                                  a.mesh_size_wings, refine)
         IN Then(WingSectionFields(k, a, wing_sections[idx], r),
                 LAMBDA k1 : WingSectionLoop(k1, a, wing_sections, idx + 1, r))

\* refine_wing_section, lines 245-330
refine_wing_section(k, final_domain_volume_tag, aircraft_surfaces_tags, wing_part, mesh_size_wings, refine) ==
    LET a == [final_domain_volume_tag |-> final_domain_volume_tag,
              aircraft_surfaces_tags |-> aircraft_surfaces_tags,
              surfaces_wing |-> wing_part.surfaces_tags,
              mesh_size_wings |-> mesh_size_wings,
              chord_percent |-> 25, n_power |-> 2]
        increased(r) ==
            IF RatEq(<<refine, 1>>, r.refine) THEN <<>>
            ELSE <<[level |-> "info", msg |-> "refinement factor was increase",
                    refine |-> r.refine]>>
        high(r) ==
            IF RatGt(r.refine, <<20, 1>>)
            THEN <<[level |-> "warning", msg |-> "Refinement factor is high !",
                    refine |-> r.refine],
                   [level |-> "info", msg |-> "Consider reducing the wing mesh size",
                    refine |-> r.refine]>>
            ELSE <<>>
    IN Then(WingSectionLoop(k, a, wing_part.wing_sections, 1, <<refine, 1>>), LAMBDA r :
       [r.k EXCEPT !.log = @ \o increased(r) \o high(r)])

\* set_fuselage_mesh, lines 351-365
set_fuselage_mesh(k, fuselage_part, mesh_size_fuselage) ==
    Then(distance_field(k, 2, fuselage_part.surfaces_tags), LAMBDA k1 :
    Then(threshold_field(k1, mesh_size_fuselage), LAMBDA k2 :
    restrict_fields(k2, 2, fuselage_part.surfaces_tags, <<>>)))

\* lines 417-447 for one part; part.mesh_size is <<>> when the attribute was
\* never assigned, and reading it at line 428 raises AttributeError after the
\* MathEval field was added
FarfieldPartFields(k, part, mesh_size_farfield, aircraft_charact_length, final_domain_volume_tag) ==
    LET math_eval(k2, distance_field_tag) ==
            SetProp(k2, k2.mf.nbfields, "F",
                    [law |-> "farfield", size |-> part.mesh_size,
                     mesh_size_farfield |-> mesh_size_farfield,
                     F |-> distance_field_tag,
                     length |-> aircraft_charact_length, n_power |-> <<15, 10>>])
    IN Then(distance_field(k, 2, part.surfaces_tags), LAMBDA k1 :
       Then(AddNextField(k1, "MathEval"), LAMBDA k2 :
       IF part.mesh_size = <<>> THEN Raise(k2, "AttributeError")
       ELSE Then(math_eval(k2, k1.mf.nbfields), LAMBDA k3 :
            Then(restrict_fields(k3, 3, final_domain_volume_tag, <<>>), LAMBDA k4 :
            Then(distance_field(k4, 2, part.surfaces_tags), LAMBDA k5 :
            Then(threshold_field(k5, mesh_size_farfield), LAMBDA k6 :
            restrict_fields(k6, 3, final_domain_volume_tag, <<>>)))))))

\* set_farfield_mesh, lines 413-447
RECURSIVE set_farfield_mesh(_, _, _, _, _, _)
set_farfield_mesh(k, parts, idx, mesh_size_farfield, aircraft_charact_length, final_domain_volume_tag) ==
    IF idx > Len(parts) \/ k.err # "none" THEN k
    ELSE Then(FarfieldPartFields(k, parts[idx], mesh_size_farfield,
                                 aircraft_charact_length, final_domain_volume_tag),
              LAMBDA k1 : set_farfield_mesh(k1, parts, idx + 1, mesh_size_farfield,
                                            aircraft_charact_length,
                                            final_domain_volume_tag))


\* ------------------------------------------------------------ compute_area
\* What the kernel does in one measurement: "ok", or the step that fails.
\*   plugin_error  gmsh.plugin.run raises (line 175)
\*   no_view       the plugin adds no view; views[-1] of an empty list raises
\*                 IndexError, views of earlier measurements are read instead
\*   no_data       the view holds no data: data[-1] raises IndexError
\*   remove_error  gmsh.view.remove does not take the list it is given
AreaOutcomes == {"ok", "plugin_error", "no_view", "no_data", "remove_error"}

NextViewTag(vw) ==
    IF vw = <<>> THEN 1
    ELSE 1 + (CHOOSE t \in Range(vw) : \A u \in Range(vw) : u <= t)

\* line 170
AreaGroup(k, surface_tag) ==
    [k EXCEPT !.groups = addPhysicalGroup(@, 2, {surface_tag}, <<>>)]

\* lines 183-185: the views of the list views and the group are removed
AreaCleanup(k, listed, group_tag) ==
    [k EXCEPT !.views = SelectSeq(@, LAMBDA v : v \notin listed),
              !.groups = SelectSeq(@, LAMBDA g : ~(g.dim = 2 /\ g.tag = group_tag))]

\* compute_area, lines 170-187; m = [outcome, area] is what the kernel does
\* and measures.  The area is returned in ret.
compute_area(k, surface_tag, m) ==
    LET surface_groupe == NextGroupTag(k.groups, 2)
        k1 == AreaGroup(k, surface_tag)
        k2 == IF m.outcome = "no_view" THEN k1
              ELSE [k1 EXCEPT !.views = Append(@, NextViewTag(@))]
    IN IF m.outcome = "plugin_error" THEN Raise(k1, "Exception")
       ELSE IF k2.views = <<>> THEN Raise(k2, "IndexError")
       ELSE IF m.outcome = "no_data" THEN Raise(k2, "IndexError")
       ELSE IF m.outcome = "remove_error" THEN Raise(k2, "TypeError")
       ELSE [AreaCleanup(k2, Range(k2.views), surface_groupe) EXCEPT !.ret = <<m.area>>]

\* --------------------------------------------------- refine_small_surfaces
\* mutant of SmallSurface: the area of one triangle is the threshold
SmallSurface_OneTriangle(area, nb_min_triangle, mesh_size) ==
    LET quarter == (mesh_size * mesh_size) \div 4
    IN area * area < 3 * quarter * quarter

\* line 506: area < nb_min_triangle * (3**0.5 / 4) * mesh_size**2, in exact
\* arithmetic (the product nb_min_triangle * mesh_size**2 is a multiple of 4
\* for the sizes drawn here)
SmallSurface(area, nb_min_triangle, mesh_size) ==
    LET quarter == (nb_min_triangle * mesh_size * mesh_size) \div 4
    IN area * area < 3 * quarter * quarter

\* lines 507-539 for one surface that is too small
SmallSurfaceFields(k, surface_tag, area, a) ==
    LET new_mesh_size == [law |-> "sqrt", area |-> area,
                          nb_min_triangle |-> a.nb_min_triangle]
        math_eval(k4, distance_field_tag) ==
            SetProp(k4, k4.mf.nbfields, "F",
                    [law |-> "farfield", size |-> new_mesh_size,
                     mesh_size_farfield |-> a.mesh_size_farfield,
                     F |-> distance_field_tag,
                     length |-> a.aircraft_charact_length, n_power |-> <<15, 10>>])
    IN Then(distance_field(k, 2, {surface_tag}), LAMBDA k1 :
       Then(threshold_field(k1, new_mesh_size), LAMBDA k2 :
       Then(restrict_fields(k2, 2, {surface_tag}, <<>>), LAMBDA k3 :
       Then(AddNextField(k3, "MathEval"), LAMBDA k4 :
       Then(math_eval(k4, k1.mf.nbfields), LAMBDA k5 :
       restrict_fields(k5, 3, a.final_domain_volume_tag, <<>>))))))

\* lines 503-539: the loop over part.surfaces_tags, a list here; measures[i]
\* is what the kernel does for the i-th surface.  The result is
\* [k, refined_surfaces].
RECURSIVE SmallSurfaceLoop(_, _, _, _, _, _)
SmallSurfaceLoop(k, part, measures, idx, refined_surfaces, a) ==
    IF idx > Len(part.surfaces_tags) \/ k.err # "none"
    THEN [k |-> k, refined_surfaces |-> refined_surfaces]
    ELSE LET surface_tag == part.surfaces_tags[idx] IN
         Then(compute_area(k, surface_tag, measures[idx]), LAMBDA k1 :
            IF k1.err # "none"
            THEN [k |-> k1, refined_surfaces |-> refined_surfaces]
            ELSE IF SmallSurface(k1.ret[1], a.nb_min_triangle, part.mesh_size[1])
            THEN Then(SmallSurfaceFields(k1, surface_tag, k1.ret[1], a),
                      LAMBDA k2 : SmallSurfaceLoop(k2, part, measures, idx + 1,
                                                   Append(refined_surfaces, surface_tag), a))
            ELSE SmallSurfaceLoop(k1, part, measures, idx + 1, refined_surfaces, a))

\* refine_small_surfaces, lines 498-543
refine_small_surfaces(k, part, measures, mesh_size_farfield, aircraft_charact_length, final_domain_volume_tag) ==
    LET a == [mesh_size_farfield |-> mesh_size_farfield,
              aircraft_charact_length |-> aircraft_charact_length,
              final_domain_volume_tag |-> final_domain_volume_tag,
              nb_min_triangle |-> 150]
    IN IF part.mesh_size = <<>> THEN Raise(k, "AttributeError")
       ELSE Then(SmallSurfaceLoop(k, part, measures, 1, <<>>, a), LAMBDA r :
            IF r.k.err # "none" THEN r.k
            ELSE [r.k EXCEPT
                     !.log = Append(@, [level |-> "info", msg |-> "was insufficient",
                                        uid |-> part.uid]),
                     !.ret = <<[refined_surfaces |-> r.refined_surfaces,
                                mesh_fields |-> r.k.mf]>>])

\* ============================================ compositions of the routines
\* The state of the kernel session and of mesh_fields, as one K
Session ==
    Kernel(mesh_fields, fields, background, options, physical_groups, views, log)

\* The end of a call: the session is what the routine left, error is the
\* exception it raised, returned the value it returned
Return(k, made, value) ==
    /\ mesh_fields' = k.mf
    /\ fields' = k.fields
    /\ background' = k.background
    /\ options' = k.options
    /\ physical_groups' = k.groups
    /\ views' = k.views
    /\ log' = k.log
    /\ error' = k.err
    /\ returned' = IF k.err = "none" THEN <<value>> ELSE <<>>
    /\ call' = made
    /\ ncalls' = ncalls + 1
    /\ UNCHANGED <<pc, geomVars, meshVars>>

\* no geometry: the routines get their entities as arguments
NoGeometry ==
    /\ symmetry = FALSE
    /\ children_dimtag = <<>>
    /\ model_volumes = {}
    /\ aircraft_parts = <<>>
    /\ unwanted_children = {}
    /\ good_children = {}
    /\ final_domain = ModelPart(<<"none">>)
    /\ aircraft = ModelPart(<<"none">>)
    /\ farfield_surfaces = <<>>
    /\ farfield_surfaces_tags = {}
    /\ farfield_points = {}
    /\ symmetry_surfaces = <<>>
    /\ symmetry_surfaces_tags = <<>>

\* ------------------------------------------------------- bounds and inputs
\* number of routine calls in one composition
MaxCalls == 3
\* number of sections classify_wing finds on a wing
MaxSections == 2
\* number of physical groups, and of views, in the session before a measurement
MaxPre == 1

\* the dimensions a caller can pass
Dims == 0..4

\* a wing section as classify_wing leaves it: the mean chord, the curves to
\* refine (leading edge and one or two trailing edge curves) and, for three
\* curves, the distances d12, d13, d23 of their centres of mass
WingSection(nlines, d) ==
    [mean_chord |-> 100, lines_tags |-> [i \in 1..nlines |-> i], d |-> d]

\* trailing edges: sharp, and truncated with thickness 0.02, 0.05, 0.10, 0
WingSectionChoices ==
    {WingSection(2, <<0, 0, 0>>)} \cup
    {WingSection(3, d) : d \in {<<100, 102, 2>>, <<100, 105, 5>>,
                                <<110, 100, 10>>, <<100, 100, 0>>}}

WingPart(sections) ==
    [ModelPart(<<"wing">>) EXCEPT !.part_type = "wing", !.surfaces_tags = {1},
                                  !.wing_sections = sections]

\* a part with the list of its surfaces, its size set (<<m>>) or not (<<>>)
SizedPart(uid, surfaces_tags, mesh_size) ==
    [ModelPart(uid) EXCEPT !.surfaces_tags = surfaces_tags, !.mesh_size = mesh_size]

\* what a measurement can give for a part of size 0.2: 2.598 is just below
\* and 2.5981 just above 150 equilateral triangles
Measures ==
    {[outcome |-> "ok", area |-> 25980], [outcome |-> "ok", area |-> 25981],
     [outcome |-> "plugin_error", area |-> 0]}

\* ---------------------------------------------------------------- SpecFields
\* Any sequence of at most MaxCalls calls of the routines on one mesh_fields
\* that starts at {"nbfields": 0, "restrict_fields": []}.  A caller can go on
\* after an exception.
InitFields ==
    /\ pc = "composing"
    /\ error = "none"
    /\ NoGeometry
    /\ physical_groups = <<>>
    /\ NoFields

CallDistanceField ==
    /\ pc = "composing" /\ ncalls < MaxCalls
    /\ \E dim \in Dims :
         \E k \in {distance_field(Session, dim, {1})} :
         Return(k, [routine |-> "distance_field", dim |-> dim, before |-> mesh_fields],
                k.mf)

CallRestrictFields ==
    /\ pc = "composing" /\ ncalls < MaxCalls
    /\ \E dim \in Dims, infield \in {<<>>, <<1>>} :
         \E k \in {restrict_fields(Session, dim, {1}, infield)} :
         Return(k, [routine |-> "restrict_fields", dim |-> dim, infield |-> infield,
                    before |-> mesh_fields],
                k.mf)

CallMinFields ==
    /\ pc = "composing" /\ ncalls < MaxCalls
    /\ \E k \in {min_fields(Session)} :
       Return(k, [routine |-> "min_fields", before |-> mesh_fields], k.mf)

CallRefineWingSection ==
    /\ pc = "composing" /\ ncalls < MaxCalls
    /\ \E section \in {WingSection(2, <<0, 0, 0>>), WingSection(3, <<100, 102, 2>>)} :
         \E k \in {refine_wing_section(Session, {1}, {1, 2}, WingPart(<<section>>), 20, 4)} :
         Return(k, [routine |-> "refine_wing_section", before |-> mesh_fields], "None")

CallSetFuselageMesh ==
    /\ pc = "composing" /\ ncalls < MaxCalls
    /\ \E k \in {set_fuselage_mesh(Session, SizedPart(<<"fuselage">>, {2}, <<20>>), 20)} :
       Return(k, [routine |-> "set_fuselage_mesh", before |-> mesh_fields], "None")

CallSetFarfieldMesh ==
    /\ pc = "composing" /\ ncalls < MaxCalls
    /\ \E mesh_size \in {<<>>, <<20>>} :
         \E k \in {set_farfield_mesh(Session, <<SizedPart(<<"part">>, {1}, mesh_size)>>, 1,
                                    1200, 1000, {1})} :
         Return(k, [routine |-> "set_farfield_mesh", before |-> mesh_fields], "None")

CallRefineSmallSurfaces ==
    /\ pc = "composing" /\ ncalls < MaxCalls
    /\ \E mesh_size \in {<<>>, <<20>>}, m \in Measures :
         \E part \in {SizedPart(<<"part">>, <<1>>, mesh_size)} :
         \E k \in {refine_small_surfaces(Session, part, <<m>>, 1200, 1000, {1})} :
         Return(k, [routine |-> "refine_small_surfaces", before |-> mesh_fields,
                    part |-> part, measures |-> <<m>>],
                k.ret[1])

NextFields ==
    \/ CallDistanceField
    \/ CallRestrictFields
    \/ CallMinFields
    \/ CallRefineWingSection
    \/ CallSetFuselageMesh
    \/ CallSetFarfieldMesh
    \/ CallRefineSmallSurfaces

SpecFields == InitFields /\ [][NextFields]_vars

\* ------------------------------------------------------------------ SpecArea
\* Measurements in a session that holds up to MaxPre physical groups of
\* surfaces and up to MaxPre views
InitArea ==
    /\ pc = "measuring"
    /\ error = "none"
    /\ NoGeometry
    /\ NoFields
    /\ \E g \in 0..MaxPre :
         physical_groups = [i \in 1..g |-> [dim |-> 2, tag |-> i, tags |-> {i},
                                            name |-> BrepStem(i)]]

OpenView ==
    /\ pc = "measuring" /\ ncalls = 0
    /\ Len(views) < MaxPre
    /\ views' = Append(views, NextViewTag(views))
    /\ UNCHANGED <<pc, error, geomVars, physical_groups, meshVars, mesh_fields, fields,
                   background, options, log, call, returned, ncalls>>

CallComputeArea ==
    /\ pc = "measuring" /\ ncalls < MaxCalls
    /\ \E surface_tag \in Surfs, outcome \in AreaOutcomes :
         \E k \in {compute_area(Session, surface_tag, [outcome |-> outcome, area |-> 25980])} :
         Return(k, [routine |-> "compute_area", surface_tag |-> surface_tag,
                    outcome |-> outcome,
                    groups_before |-> physical_groups, views_before |-> views],
                k.ret[1])

NextArea ==
    \/ OpenView
    \/ CallComputeArea

SpecArea == InitArea /\ [][NextArea]_vars

\* ------------------------------------------------------------------ SpecWing
\* refine_wing_section on a wing of up to MaxSections sections, with a
\* refinement factor and a wing mesh size that the caller chooses
WingInputs ==
    UNION {[1..n -> WingSectionChoices] : n \in 1..MaxSections}

InitWing ==
    /\ pc = "wing"
    /\ error = "none"
    /\ NoGeometry
    /\ physical_groups = <<>>
    /\ NoFields

CallRefineWing ==
    /\ pc = "wing" /\ ncalls = 0
    /\ \E sections \in WingInputs, refine \in {2, 4, 12}, mesh_size_wings \in {10, 20} :
         \E k \in {refine_wing_section(Session, {1}, {1, 2}, WingPart(sections),
                                      mesh_size_wings, refine)} :
         Return(k, [routine |-> "refine_wing_section", sections |-> sections,
                    refine |-> refine, mesh_size_wings |-> mesh_size_wings,
                    before |-> mesh_fields], "None")

NextWing == CallRefineWing

SpecWing == InitWing /\ [][NextWing]_vars

\* ----------------------------------------------------------------- SpecSmall
\* refine_small_surfaces on a part of up to MaxSmall surfaces, listed by
\* rising or by falling tag, each with its own measurement
MaxSmall == 3

\* what a measurement can give: for a part of size 0.1, 0.6495 is just below
\* and 0.6496 just above 150 equilateral triangles; for a part of size 0.2,
\* 2.598 and 2.5981 are
SmallMeasures ==
    {[outcome |-> "ok", area |-> a] : a \in {6495, 6496, 25980, 25981}}
    \cup {[outcome |-> "plugin_error", area |-> 0]}

SurfaceLists ==
    UNION {{[i \in 1..n |-> i], [i \in 1..n |-> n + 1 - i]} : n \in 1..MaxSmall}

InitSmall ==
    /\ pc = "small"
    /\ error = "none"
    /\ NoGeometry
    /\ physical_groups = <<>>
    /\ NoFields

CallRefineSmall ==
    /\ pc = "small" /\ ncalls = 0
    /\ \E surfaces_tags \in SurfaceLists, mesh_size \in {<<>>, <<10>>, <<20>>} :
       \E measures \in [1..Len(surfaces_tags) -> SmallMeasures] :
         \E part \in {SizedPart(<<"part">>, surfaces_tags, mesh_size)} :
         \E k \in {refine_small_surfaces(Session, part, measures, 1200, 1000, {1})} :
         Return(k, [routine |-> "refine_small_surfaces", before |-> mesh_fields,
                    part |-> part, measures |-> measures],
                k.ret[1])

NextSmall == CallRefineSmall

SpecSmall == InitSmall /\ [][NextSmall]_vars

\* ============================== generate_gmsh: mesh generation, lines 532-636
\* the part types get_part_type can give; "other" is any type that lines
\* 540 and 546 do not name
PartTypes == {"fuselage", "wing", "pylon", "nacelle", "engine", "other"}

\* the keys of MESH_COLORS, lines 42-48
MESH_COLORS == {"farfield", "symmetry", "wing", "fuselage", "pylon"}

\* gmsh.model.mesh.setSize(points, size)
setSize(sizes, points, size) ==
    [p \in DOMAIN sizes |-> IF p \in points THEN <<size>> ELSE sizes[p]]

\* lines 540-551 for one part: the nominal size of its type, <<>> for a type
\* that neither branch takes
NominalSize(part_type, mesh_size_fuselage, mesh_size_wings) ==
    IF part_type = "fuselage" THEN <<mesh_size_fuselage>>
    ELSE IF part_type \in {"wing", "pylon", "nacelle", "engine"} THEN <<mesh_size_wings>>
    ELSE <<>>

\* lines 539-551: the loop over aircraft_parts.  MESH_COLORS[part.part_type]
\* raises KeyError, after setSize, for a type that has no colour.  The
\* result is [parts, sizes, err].
RECURSIVE PartSizeLoop(_, _, _, _, _)
PartSizeLoop(parts, idx, sizes, mesh_size_fuselage, mesh_size_wings) ==
    IF idx > Len(parts) THEN [parts |-> parts, sizes |-> sizes, err |-> "none"]
    ELSE LET part == parts[idx]
             size == NominalSize(part.part_type, mesh_size_fuselage, mesh_size_wings)
             sized == [parts EXCEPT ![idx].mesh_size = size]
         IN IF size = <<>>
            THEN PartSizeLoop(parts, idx + 1, sizes, mesh_size_fuselage, mesh_size_wings)
            ELSE IF part.part_type \notin MESH_COLORS
            THEN [parts |-> sized, sizes |-> setSize(sizes, part.points, size[1]),
                  err |-> "KeyError"]
            ELSE PartSizeLoop(sized, idx + 1, setSize(sizes, part.points, size[1]),
                              mesh_size_fuselage, mesh_size_wings)

\* lines 563-583: the loop over aircraft_parts of the advanced meshing;
\* sections[idx] is what classify_wing finds on part idx
RECURSIVE PartFieldsLoop(_, _, _, _, _, _)
PartFieldsLoop(k, parts, idx, sections, fd, ac) ==
    IF idx > Len(parts) THEN k
    ELSE LET part == parts[idx]
             k1 == IF part.part_type = "wing"
                   THEN refine_wing_section(
                            k, fd.volume_tag, ac.surfaces_tags,
                            [part EXCEPT !.wing_sections = sections[idx]],
                            call.mesh_size_wings, refine_factor)
                   ELSE IF part.part_type = "fuselage"
                   THEN set_fuselage_mesh(k, part, call.mesh_size_fuselage)
                   ELSE k
         IN Then(k1, LAMBDA k2 : PartFieldsLoop(k2, parts, idx + 1, sections, fd, ac))

\* lines 562-604
AdvancedFields(parts, sections, fd, ac) ==
    LET k0 == Kernel([nbfields |-> 0, restrict_fields |-> <<>>], fields, background,
                     options, physical_groups, views, log)
    IN Then(PartFieldsLoop(k0, parts, 1, sections, fd, ac), LAMBDA k1 :
       Then(set_farfield_mesh(k1, parts, 1, call.mesh_size_farfield,
                              call.aircraft_charact_length, fd.volume_tag), LAMBDA k2 :
       IF k2.err # "none" THEN k2 ELSE min_fields(k2)))

\* The model after the markers are generated (line 528): part k owns surface
\* k, so that neighbours in the list share points; the far field owns one
\* surface that touches no part and, with symmetry, the symmetry plane is a
\* surface that touches the last part.
MeshPart(k, part_type) ==
    [clean_inside_entities(
         associate_child_to_parent(ModelPart(BrepStem(k)), <<3, k>>, {k}),
         associate_child_to_parent(ModelPart(<<"fluid">>), <<3, 0>>, {k}))
     EXCEPT !.part_type = part_type]

MeshDomain(n, sym) ==
    associate_child_to_parent(ModelPart(<<"fluid">>), <<3, 0>>,
                              (1..n) \cup {n + 3} \cup (IF sym THEN {n + 1} ELSE {}))

InitMesh ==
    \E n \in 1..MaxParts, sym \in BOOLEAN, refine \in {1, 4}, wings \in {10, 20} :
      \E types \in [1..n -> PartTypes] :
        LET parts == [k \in 1..n |-> MeshPart(k, types[k])]
            fd == MeshDomain(n, sym)
            ac == Aggregate(parts)
        IN /\ symmetry = sym
           /\ refine_factor = refine
           /\ aircraft_parts = parts
           /\ final_domain = fd
           /\ aircraft = ac
           /\ farfield_points = FarfieldPoints(fd, ac)
           /\ farfield_surfaces = <<<<2, n + 3>>>>
           /\ farfield_surfaces_tags = {n + 3}
           /\ symmetry_surfaces = IF sym THEN <<<<2, n + 1>>>> ELSE <<>>
           /\ symmetry_surfaces_tags = IF sym THEN <<n + 1>> ELSE <<>>
           /\ children_dimtag = <<>>
           /\ model_volumes = fd.volume
           /\ unwanted_children = {}
           /\ good_children = {}
           /\ physical_groups = <<>>
           /\ point_size = [p \in fd.points |-> <<>>]
           /\ mesh_calls = <<>>
           /\ mesh_fields = [nbfields |-> 0, restrict_fields |-> <<>>]
           /\ fields = <<>>
           /\ background = <<>>
           /\ options = {}
           /\ views = <<>>
           /\ log = <<>>
           /\ call = [routine |-> "generate_gmsh", mesh_size_farfield |-> 1200,
                      mesh_size_fuselage |-> 20, mesh_size_wings |-> wings,
                      aircraft_charact_length |-> 1000]
           /\ returned = <<>>
           /\ ncalls = 0
           /\ pc = "markers_generated"
           /\ error = "none"

\* lines 539-551
SetPartSizes ==
    /\ pc = "markers_generated"
    /\ \E r \in {PartSizeLoop(aircraft_parts, 1, point_size,
                             call.mesh_size_fuselage, call.mesh_size_wings)} :
        /\ aircraft_parts' = r.parts
        /\ point_size' = r.sizes
        /\ error' = r.err
        /\ pc' = IF r.err = "none" THEN "part_sizes_set" ELSE "aborted"
    /\ UNCHANGED <<fieldVars, refine_factor, mesh_calls, physical_groups, symmetry,
                   children_dimtag, model_volumes, unwanted_children, good_children,
                   final_domain, aircraft, farfield_surfaces, farfield_surfaces_tags,
                   farfield_points, symmetry_surfaces, symmetry_surfaces_tags>>

\* lines 553-558
SetFarfieldSize ==
    /\ pc = "part_sizes_set"
    /\ point_size' = setSize(point_size, farfield_points, call.mesh_size_farfield)
    /\ pc' = "farfield_size_set"
    /\ UNCHANGED <<error, fieldVars, refine_factor, mesh_calls, geomVars, physical_groups>>

\* lines 560-604
AdvancedMeshing ==
    /\ pc = "farfield_size_set"
    /\ IF refine_factor # 1
       THEN \E sections \in [1..Len(aircraft_parts) ->
                               {<<WingSection(2, <<0, 0, 0>>)>>,
                                <<WingSection(3, <<100, 102, 2>>)>>}] :
              \E k \in {AdvancedFields(aircraft_parts, sections, final_domain, aircraft)} :
              /\ mesh_fields' = k.mf
              /\ fields' = k.fields
              /\ background' = k.background
              /\ options' = k.options
              /\ log' = k.log
              /\ error' = k.err
              /\ pc' = IF k.err = "none" THEN "fields_composed" ELSE "aborted"
       ELSE /\ pc' = "fields_composed"
            /\ UNCHANGED <<mesh_fields, fields, background, options, log, error>>
    /\ UNCHANGED <<views, call, returned, ncalls, meshVars, geomVars, physical_groups>>

\* lines 606-614
GenerateSurfaceMesh ==
    /\ pc = "fields_composed"
    /\ mesh_calls' = mesh_calls \o <<"generate(1)", "generate(2)", "optimize">>
    /\ pc' = "surface_meshed"
    /\ UNCHANGED <<error, fieldVars, refine_factor, point_size, geomVars, physical_groups>>

\* lines 621-636
GenerateVolumeMesh ==
    /\ pc = "surface_meshed"
    /\ mesh_calls' = mesh_calls \o <<"generate(3)", "clear", "finalize">>
    /\ pc' = "done"
    /\ UNCHANGED <<error, fieldVars, refine_factor, point_size, geomVars, physical_groups>>

NextMesh ==
    \/ SetPartSizes
    \/ SetFarfieldSize
    \/ AdvancedMeshing
    \/ GenerateSurfaceMesh
    \/ GenerateVolumeMesh

SpecMesh == InitMesh /\ [][NextMesh]_vars

\* =================================================================== claims
\* the positions of generate_gmsh at which the parts have been cleaned
Cleaned == pc \in {"model_cleaned", "boundary_partitioned", "markers_generated"}

\* the positions at which the boundary of the final domain has been partitioned
Partitioned == pc \in {"boundary_partitioned", "markers_generated"}

OwnedWithin(part, fd, attrs) == \A f \in attrs : part[f] \subseteq fd[f]

C2_VolumesDisjoint ==
    \A a, b \in 1..Len(aircraft_parts) :
        a # b =>
            /\ aircraft_parts[a].volume \cap aircraft_parts[b].volume = {}
            /\ aircraft_parts[a].volume_tag \cap aircraft_parts[b].volume_tag = {}

\* C2 witness: the children have been associated, a part owns a volume, and a
\* child that three parts generated is still in the third part's children set
\* (the pairwise loop took it from the first two only)
C2_Witness ==
    /\ pc = "children_associated"
    /\ \E k \in 1..Len(aircraft_parts) : aircraft_parts[k].volume # {}
    /\ \E k \in 1..Len(aircraft_parts) :
          aircraft_parts[k].children_dimtag \cap unwanted_children # {}

\* C3: after the boundary partition the aircraft, far-field and symmetry
\* surfaces are pairwise disjoint and their union is the final domain's
\* surface set; the tag lists of the physical groups form the same partition.
GroupTags(names) ==
    UNION {physical_groups[g].tags :
              g \in {h \in 1..Len(physical_groups) :
                        physical_groups[h].dim = 2 /\ physical_groups[h].name \in names}}

C3_BoundaryPartition ==
    Partitioned =>
        LET A == aircraft.surfaces
            F == Range(farfield_surfaces)
            S == Range(symmetry_surfaces)
        IN /\ A \cap F = {} /\ A \cap S = {} /\ F \cap S = {}
           /\ A \cup F \cup S = final_domain.surfaces
           /\ ~symmetry => S = {}
           /\ aircraft.surfaces_tags = TagsOf(A)
           /\ farfield_surfaces_tags = TagsOf(F)
           /\ Range(symmetry_surfaces_tags) = TagsOf(S)
           /\ GroupTags({aircraft_parts[k].uid : k \in 1..Len(aircraft_parts)}) = TagsOf(A)
           /\ GroupTags({<<"Farfield">>}) = TagsOf(F)
           /\ GroupTags({<<"symmetry">>}) = TagsOf(S)

\* C3 witness: a partition under symmetry in which all three classes are
\* non-empty
C3_Witness ==
    /\ pc = "boundary_partitioned"
    /\ symmetry
    /\ aircraft.surfaces # {}
    /\ farfield_surfaces # <<>>
    /\ symmetry_surfaces # <<>>

\* C3 witness of the case without symmetry is the same state with symmetry off
C3_WitnessNoSymmetry ==
    /\ pc = "boundary_partitioned"
    /\ ~symmetry
    /\ aircraft.surfaces # {}
    /\ farfield_surfaces # <<>>

\* ---------------------------------------------------------------------- C4
\* the kernel's fields of one kind, as positions in the list of fields
FieldsOfKind(kind) == {i \in 1..Len(fields) : fields[i].kind = kind}

\* C4: in a composition of any calls of the seven routines on one
\* mesh_fields that starts at nbfields = 0, no two field.add calls get the
\* same index, and mesh_fields["nbfields"] is the number of field.add calls
\* made so far.
C4_FieldIndicesUnique ==
    /\ mesh_fields.nbfields = Len(fields)
    /\ \A i, j \in 1..Len(fields) : i # j => fields[i].index # fields[j].index

\* a Min field on top of the seven fields of a wing section
C4_Witness ==
    /\ pc = "composing"
    /\ \E i \in FieldsOfKind("Min") : fields[i].index >= 8
    /\ FieldsOfKind("MathEval") # {}

\* ---------------------------------------------------------------------- C5
\* there is exactly one Min field, and it is the one and only background mesh
OneMinBackground ==
    /\ Cardinality(FieldsOfKind("Min")) = 1
    /\ \A i \in FieldsOfKind("Min") : background = <<fields[i].index>>

\* C5 as the specification states it: in every run of generate_gmsh, whatever
\* refine_factor and symmetry are, when mesh.generate is first called exactly
\* one Min field exists and is the background field.
C5_OneMinBackgroundAlways ==
    mesh_calls # <<>> => OneMinBackground

\* C5, amended: when mesh.generate is first called, and from then on, a run
\* with refine_factor # 1 has exactly one Min field, set as the background
\* field, and a run with refine_factor = 1 has no field and no background
\* field at all.
C5_OneMinBackgroundWhenRefined ==
    mesh_calls # <<>> =>
        IF refine_factor # 1 THEN OneMinBackground
        ELSE fields = <<>> /\ background = <<>>

\* a refined run of a wing and a fuselage that has meshed the volume
C5_Witness ==
    /\ pc = "done"
    /\ refine_factor # 1
    /\ symmetry
    /\ \E a, b \in 1..Len(aircraft_parts) :
         aircraft_parts[a].part_type = "wing" /\ aircraft_parts[b].part_type = "fuselage"
    /\ "generate(3)" \in Range(mesh_calls)
    /\ OneMinBackground

\* a run with refine_factor = 1 that has meshed the volume
C5_WitnessNotRefined ==
    pc = "done" /\ refine_factor = 1 /\ fields = <<>>

\* ---------------------------------------------------------------------- C6
\* the refinement factor that the MathEval field of the last section uses
EffectiveRefine ==
    LET last == CHOOSE i \in FieldsOfKind("MathEval") :
                    \A j \in FieldsOfKind("MathEval") : j <= i
    IN fields[last].F.refine

\* the thickness of a truncated trailing edge: the least of the distances
Thickness(d) == CHOOSE t \in Range(d) : \A u \in Range(d) : t <= u

\* C6: for a wing of one section whose trailing edge has 3 curves and
\* thickness t, the effective refinement factor is 2 * mesh_size_wings / t,
\* and greater than the input, if mesh_size_wings / t > refine, and the input
\* otherwise; distances {1.0, 1.02, 0.02}, mesh_size_wings 0.2 and refine 4
\* give 20.
C6_TruncationOverride ==
    (/\ call.routine = "refine_wing_section"
     /\ Len(call.sections) = 1
     /\ Len(call.sections[1].lines_tags) = 3) =>
        LET t == Thickness(call.sections[1].d)
            m == call.mesh_size_wings
            r == call.refine
        IN /\ IF m > r * t
              THEN /\ EffectiveRefine = <<2 * m, t>>
                   /\ 2 * m > r * t
              ELSE EffectiveRefine = <<r, 1>>
           /\ (call.sections[1].d = <<100, 102, 2>> /\ m = 20 /\ r = 4)
                 => EffectiveRefine[1] = 20 * EffectiveRefine[2]

\* the scenario of the specification
C6_Witness ==
    /\ call.routine = "refine_wing_section"
    /\ call.sections = <<WingSection(3, <<100, 102, 2>>)>>
    /\ call.mesh_size_wings = 20 /\ call.refine = 4
    /\ EffectiveRefine = <<40, 2>>
    /\ error = "none"

\* a truncated section whose factor stays the input
C6_WitnessUnchanged ==
    /\ call.routine = "refine_wing_section"
    /\ call.sections = <<WingSection(3, <<100, 105, 5>>)>>
    /\ call.mesh_size_wings = 20 /\ call.refine = 4
    /\ EffectiveRefine = <<4, 1>>

\* ---------------------------------------------------------------------- C7
\* the parts, by position in aircraft_parts, that own point p and have set a
\* size
Setters(p) ==
    {k \in 1..Len(aircraft_parts) :
        p \in aircraft_parts[k].points /\ aircraft_parts[k].mesh_size # <<>>}

LastOf(S) == CHOOSE k \in S : \A j \in S : j <= k

PartLoopDone ==
    pc \in {"part_sizes_set", "farfield_size_set", "fields_composed",
            "surface_meshed", "done"}

\* C7: after the loop over the parts, and after the size of the far field is
\* set, the size at a point that parts own is the nominal size of the last
\* part of aircraft_parts that owns it and sets a size; the far field's size
\* is at no point of the aircraft.
C7_LastPartWins ==
    PartLoopDone =>
        \A p \in aircraft.points :
            IF Setters(p) # {}
            THEN point_size[p] = aircraft_parts[LastOf(Setters(p))].mesh_size
            ELSE point_size[p] = <<>>

\* the far field's size is set, and a point is shared by two parts of
\* different sizes
C7_Witness ==
    /\ pc = "farfield_size_set"
    /\ \E p \in farfield_points : point_size[p] = <<call.mesh_size_farfield>>
    /\ \E p \in aircraft.points :
         \E a, b \in Setters(p) :
            /\ a < b
            /\ aircraft_parts[a].mesh_size # aircraft_parts[b].mesh_size
            /\ point_size[p] = aircraft_parts[b].mesh_size

\* ---------------------------------------------------------------------- C8
\* C8: when a call of compute_area ends, by a return or by an exception of
\* the plugin, of the view lookup or of the read of the data, the group and
\* the view it made are gone and the groups and views of before are there:
\* the session holds what it held before.
C8_SessionRestored ==
    call.routine = "compute_area" =>
        /\ physical_groups = call.groups_before
        /\ views = call.views_before

\* ---------------------------------------------------------------------- C9
\* C9: distance_field with a dimension other than 1 and 2, and
\* restrict_fields with a dimension other than 2 and 3, end in ValueError
\* and return nothing.
C9_InvalidDimensionRaises ==
    /\ (call.routine = "distance_field" /\ call.dim \notin {1, 2})
          => error = "ValueError" /\ returned = <<>>
    /\ (call.routine = "restrict_fields" /\ call.dim \notin {2, 3})
          => error = "ValueError" /\ returned = <<>>

\* restrict_fields refuses the dimension 1 that distance_field takes
C9_Witness ==
    /\ call.routine = "restrict_fields"
    /\ call.dim = 1
    /\ error = "ValueError"
    /\ returned = <<>>

\* distance_field refuses the dimension 3 that restrict_fields takes
C9_WitnessDistance ==
    call.routine = "distance_field" /\ call.dim = 3 /\ error = "ValueError"

\* --------------------------------------------------------------------- C10
\* C10: restrict_fields with the default source when nbfields = 0, and
\* min_fields when restrict_fields is empty, end in an error and create no
\* field whose source does not exist.
C10_ConsumerBeforeFieldFails ==
    /\ (call.routine = "restrict_fields" /\ call.infield = <<>>
        /\ call.before.nbfields = 0)
          => error # "none"
    /\ (call.routine = "min_fields" /\ call.before.restrict_fields = <<>>)
          => error # "none"

\* --------------------------------------------------------------------- C11
\* the final domain has been found (line 451 has returned)
FinalDomainFound ==
    pc \in {"final_domain_found", "model_cleaned", "boundary_partitioned",
            "markers_generated"}

\* the physical groups of volumes
VolumeGroups == SelectSeq(physical_groups, LAMBDA g : g.dim = 3)

\* C11: when the good children are deleted and the volumes left in the model
\* are not exactly one (none, or several), the run aborts and no physical
\* group has been created; when exactly one is left it is the volume of the
\* final domain, and it is the one volume physical group of the run.
C11_NoPartialSuccess ==
    /\ pc = "aborted" =>
          Cardinality(model_volumes) # 1 /\ physical_groups = <<>>
    /\ FinalDomainFound =>
          Cardinality(model_volumes) = 1 /\ final_domain.volume = model_volumes
    /\ pc = "markers_generated" =>
          /\ Len(VolumeGroups) = 1
          /\ VolumeGroups[1].tags = TagsOf(model_volumes)
    /\ pc # "markers_generated" => VolumeGroups = <<>>

\* several volumes are left and the run is aborted
C11_Witness ==
    pc = "aborted" /\ Cardinality(model_volumes) >= 2 /\ error = "TypeError"

\* no volume is left and the run is aborted
C11_WitnessNone ==
    pc = "aborted" /\ model_volumes = {}

\* one volume is left and has its group
C11_WitnessOne ==
    pc = "markers_generated" /\ Len(VolumeGroups) = 1

\* --------------------------------------------------------------------- C12
\* C12: the removal step (lines 400-404) leaves exactly the parts whose
\* children set is not empty, in their order, however many parts have an
\* empty set and wherever they are in the list.
C12_EmptyParentsRemoved ==
    [][pc = "children_assigned" =>
          aircraft_parts' =
              SelectSeq(aircraft_parts, LAMBDA part : part.children_dimtag # {})]_vars

\* --------------------------------------------------------------------- C13
\* the children that more than one part of the list has
SharedByParts(parts) ==
    {c \in UNION {parts[k].children_dimtag : k \in 1..Len(parts)} :
        \E i, j \in 1..Len(parts) :
            i # j /\ c \in parts[i].children_dimtag /\ c \in parts[j].children_dimtag}

\* C13: the overlap loop (lines 409-429) takes every child that two, three
\* or more parts have out of the children set of each of these parts and
\* puts it in unwanted_children; afterwards no part has an unwanted child.
C13_SharedChildrenRemoved ==
    [][pc = "parents_removed" =>
          /\ SharedByParts(aircraft_parts) \subseteq unwanted_children'
          /\ \A k \in 1..Len(aircraft_parts') :
                /\ aircraft_parts'[k].children_dimtag
                       \cap SharedByParts(aircraft_parts) = {}
                /\ aircraft_parts'[k].children_dimtag \cap unwanted_children' = {}]_vars

\* --------------------------------------------------------------------- C14
\* C14: with symmetry, after the loop of lines 506-515 every surface of the
\* final domain that the aircraft does not own is a symmetry surface, and no
\* far-field surface, if one of its adjacent curves is a curve of the
\* aircraft, and a far-field surface, and no symmetry surface, if none is;
\* whatever the number and the order of the candidates.
C14_SymmetryReclassified ==
    (symmetry /\ pc \in {"boundary_partitioned", "markers_generated"}) =>
        \A s \in final_domain.surfaces \ aircraft.surfaces :
            IF TouchesAircraft(s, aircraft)
            THEN /\ s \in Range(symmetry_surfaces)
                 /\ s[2] \in Range(symmetry_surfaces_tags)
                 /\ s \notin Range(farfield_surfaces)
                 /\ s[2] \notin farfield_surfaces_tags
            ELSE /\ s \in Range(farfield_surfaces)
                 /\ s[2] \in farfield_surfaces_tags
                 /\ s \notin Range(symmetry_surfaces)
                 /\ s[2] \notin Range(symmetry_surfaces_tags)

\* --------------------------------------------------------------------- C15
\* the position, in the kernel's fields, of the n-th field of a kind
NthOfKind(kind, n) ==
    CHOOSE q \in FieldsOfKind(kind) :
        Cardinality({o \in FieldsOfKind(kind) : o <= q}) = n

\* C15: on a wing of several sections, the MathEval field of a section uses
\* 2 * mesh_size_wings / t if this section has a 3-curve trailing edge of
\* thickness t with mesh_size_wings / t > refine, and the input refine
\* otherwise, whatever the sections before it are.
C15_FactorPerSection ==
    call.routine = "refine_wing_section" =>
        \A i \in 1..Len(call.sections) :
            LET section == call.sections[i]
                t == Thickness(section.d)
                m == call.mesh_size_wings
                r == call.refine
                used == fields[NthOfKind("MathEval", i)].F.refine
            IN IF Len(section.lines_tags) = 3 /\ m > r * t
               THEN used = <<2 * m, t>>
               ELSE used = <<r, 1>>

\* --------------------------------------------------------------------- C16
\* the indices of the fields at the positions S, in the order of creation
RECURSIVE IndicesAt(_)
IndicesAt(S) ==
    IF S = {} THEN <<>>
    ELSE LET last == CHOOSE q \in S : \A o \in S : o <= q
         IN Append(IndicesAt(S \ {last}), fields[last].index)

\* min_fields has just made the last field of the kernel: a Min field over
\* the whole list of leaves, set as background, with the three options at 0
MinOverAllLeaves ==
    call.routine = "min_fields" =>
        /\ fields[Len(fields)].kind = "Min"
        /\ fields[Len(fields)].FieldsList = mesh_fields.restrict_fields
        /\ background # <<>> /\ background[Len(background)] = fields[Len(fields)].index
        /\ {"Mesh.MeshSizeExtendFromBoundary", "Mesh.MeshSizeFromPoints",
            "Mesh.MeshSizeFromCurvature"} \subseteq options

\* C16: after any sequence of calls mesh_fields["restrict_fields"] is the
\* list of the indices of all the Restrict fields created so far, each once,
\* in the order of creation; the Min field that min_fields creates has this
\* whole list as FieldsList, and its creation sets the three sizing options
\* to 0.
C16_RestrictLeaves ==
    /\ mesh_fields.restrict_fields = IndicesAt(FieldsOfKind("Restrict"))
    /\ MinOverAllLeaves

\* what holds of the list: it holds the Restrict fields of the calls of
\* restrict_fields that returned, which are those whose entity list was set
C16_LeavesOfReturnedCalls ==
    /\ mesh_fields.restrict_fields =
          IndicesAt({q \in FieldsOfKind("Restrict") : fields[q].list # "none"})
    /\ MinOverAllLeaves

\* --------------------------------------------------------------------- C17
\* C17: the set of fields is finalized at most once: once a background field
\* has been assigned there is one background assignment only, and no field
\* has been added after it (a further distance_field, restrict_fields or
\* min_fields is rejected and adds nothing).
C17_FinalizedOnce ==
    background # <<>> =>
        /\ Len(background) = 1
        /\ \A q \in DOMAIN fields : fields[q].index <= background[1]

\* --------------------------------------------------------------------- C18
\* area < 150 * (3**0.5 / 4) * mesh_size**2, squared
UnderResolved(area, mesh_size) ==
    area * area < 3 * ((75 * mesh_size * mesh_size) \div 2) * ((75 * mesh_size * mesh_size) \div 2)

\* the positions, in part.surfaces_tags, of the surfaces measured too small
FlaggedPositions ==
    {i \in 1..Len(call.part.surfaces_tags) :
        UnderResolved(call.measures[i].area, call.part.mesh_size[1])}

\* the number of flagged surfaces up to position i
FlaggedRank(i) == Cardinality({o \in FlaggedPositions : o <= i})

\* the position of the j-th flagged surface
FlaggedAt(j) == CHOOSE i \in FlaggedPositions : FlaggedRank(i) = j

SmallReturned ==
    call.routine = "refine_small_surfaces" /\ error = "none"

\* C18: a call of refine_small_surfaces that returns, returns the surfaces of
\* the part measured strictly below 150 equilateral triangles of the part's
\* size, in the order of part.surfaces_tags; for the j-th of them it has
\* added five fields of which the third is a Restrict field on that surface
\* and the fifth a Restrict field on the domain volume, these two being the
\* new leaves; for the other surfaces it has added no field and no leaf.
C18_SmallSurfacesFlagged ==
    SmallReturned =>
        LET base == call.before.nbfields
            n == Cardinality(FlaggedPositions)
            tagOf(j) == call.part.surfaces_tags[FlaggedAt(j)]
        IN /\ returned[1].refined_surfaces = [j \in 1..n |-> tagOf(j)]
           /\ returned[1].mesh_fields = mesh_fields
           /\ mesh_fields.nbfields = base + 5 * n
           /\ Len(fields) = base + 5 * n
           /\ mesh_fields.restrict_fields =
                 call.before.restrict_fields \o
                 [l \in 1..(2 * n) |-> base + 5 * ((l - 1) \div 2) + (IF l % 2 = 1 THEN 3 ELSE 5)]
           /\ \A j \in 1..n :
                LET first == Len(fields) - 5 * (n - j + 1) IN
                /\ [o \in 1..5 |-> fields[first + o].kind] =
                      <<"Distance", "Threshold", "Restrict", "MathEval", "Restrict">>
                /\ [o \in 1..5 |-> fields[first + o].index] =
                      [o \in 1..5 |-> base + 5 * (j - 1) + o]
                /\ fields[first + 1].tags = {tagOf(j)}
                /\ fields[first + 3].list = "SurfacesList"
                /\ fields[first + 3].tags = {tagOf(j)}
                /\ fields[first + 5].list = "VolumesList"
                /\ fields[first + 5].tags = {1}

\* three surfaces listed by falling tag, the first and the last flagged and
\* the second not
C18_Witness ==
    /\ pc = "small" /\ SmallReturned
    /\ call.part.surfaces_tags = <<3, 2, 1>>
    /\ FlaggedPositions = {1, 3}
    /\ returned[1].refined_surfaces = <<3, 1>>
    /\ Len(fields) = 10

\* --------------------------------------------------------------------- C19
\* the sections of the call whose trailing edge has 3 curves and thickness 0
ZeroThicknessSections ==
    {i \in 1..Len(call.sections) :
        Len(call.sections[i].lines_tags) = 3 /\ Thickness(call.sections[i].d) = 0}

\* C19: a call of refine_wing_section on a wing with a 3-curve trailing edge
\* of thickness zero ends with an exception for its caller, and no MathEval
\* field is built with a refinement factor that is a quotient by that zero
\* thickness.
C19_ZeroThicknessFlagged ==
    (call.routine = "refine_wing_section" /\ ZeroThicknessSections # {}) =>
        /\ error # "none"
        /\ \A q \in FieldsOfKind("MathEval") : fields[q].F.refine[2] # 0

\* --------------------------------------------------------------------- C20
\* the field of the kernel that has index n
FieldAt(n) == fields[CHOOSE q \in DOMAIN fields : fields[q].index = n]

\* the index of the last field before index n that is not a Restrict field,
\* 0 if there is none
RECURSIVE BlockSource(_)
BlockSource(n) ==
    IF n <= 1 THEN 0
    ELSE IF FieldAt(n - 1).kind # "Restrict" THEN n - 1
    ELSE BlockSource(n - 1)

\* every Restrict field with an index above base has as InField the last
\* field created before it that is not a Restrict field, this field has an
\* index above base and is a MathEval or a Threshold field
RestrictSourcesAbove(base) ==
    \A q \in FieldsOfKind("Restrict") :
        fields[q].index > base =>
            LET source == fields[q].InField[1] IN
            /\ source = BlockSource(fields[q].index)
            /\ base < source /\ source < fields[q].index
            /\ FieldAt(source).kind \in {"MathEval", "Threshold"}

CompositionRoutines ==
    {"refine_wing_section", "set_fuselage_mesh", "set_farfield_mesh",
     "refine_small_surfaces"}

\* C20: the InField of every Restrict field that refine_wing_section,
\* set_fuselage_mesh, set_farfield_mesh or refine_small_surfaces creates is
\* the MathEval or Threshold field of its own block, which the same call
\* created before it: never a Distance field nor another Restrict field, and
\* of smaller index than the Restrict field.  The same holds of all the
\* fields that generate_gmsh composes.
C20_RestrictSources ==
    /\ call.routine \in CompositionRoutines => RestrictSourcesAbove(call.before.nbfields)
    /\ pc \in {"fields_composed", "surface_meshed", "done"} => RestrictSourcesAbove(0)

\* a wing section refined after other fields: its second Restrict field, on
\* the domain volume, has the MathEval field two indices below as InField
C20_Witness ==
    /\ call.routine = "refine_wing_section" /\ error = "none"
    /\ call.before.nbfields > 0
    /\ \E q \in FieldsOfKind("Restrict") :
         /\ fields[q].index > call.before.nbfields
         /\ fields[q].list = "VolumesList"
         /\ fields[q].InField = <<fields[q].index - 2>>
         /\ FieldAt(fields[q].index - 2).kind = "MathEval"

\* --------------------------------------------------------------------- C21
\* C21: a call of distance_field or of restrict_fields that raises ValueError
\* for its dimension leaves mesh_fields["nbfields"], mesh_fields
\* ["restrict_fields"] and the fields of the kernel as they were before the
\* call, so that nbfields is still the number of fields of the kernel that
\* are set up.
C21_FailedCallChangesNothing ==
    [][(/\ call'.routine \in {"distance_field", "restrict_fields"}
        /\ ncalls' = ncalls + 1
        /\ error' = "ValueError")
       => /\ mesh_fields' = mesh_fields
          /\ fields' = fields]_vars

\* --------------------------------------------------------------------- C22
\* the MathEval fields of set_farfield_mesh: the growth law of one part
FarfieldLaws ==
    {q \in FieldsOfKind("MathEval") : fields[q].F # <<>> /\ fields[q].F.law = "farfield"}

\* C22: in generate_gmsh with refine_factor != 1, for every part type that
\* the classification can give, the loop over the parts gives every part of
\* aircraft_parts a nominal mesh size, no step of the mesh generation
\* raises, and set_farfield_mesh builds one growth law for each part.
C22_EveryPartSized ==
    refine_factor # 1 =>
        /\ error = "none"
        /\ PartLoopDone => \A k \in 1..Len(aircraft_parts) :
                               aircraft_parts[k].mesh_size # <<>>
        /\ pc \in {"fields_composed", "surface_meshed", "done"} =>
               Cardinality(FarfieldLaws) = Len(aircraft_parts)

\* the same for the part types that have a nominal size and a colour
C22_SizedWhenTypesKnown ==
    (\A k \in 1..Len(aircraft_parts) :
         aircraft_parts[k].part_type \in {"fuselage", "wing", "pylon"})
    => C22_EveryPartSized

\* --------------------------------------------------------------------- C23
\* the parts, by position, that have no child left after the shared
\* children were removed: they are given no volume and no surface
Childless == {k \in 1..Len(aircraft_parts) : aircraft_parts[k].children_dimtag = {}}

\* C23: when the physical groups of the parts are created, no part of
\* aircraft_parts is without children: a part that lost all its children to
\* the removal of the shared children, and so owns no surface of the final
\* domain, is no longer in aircraft_parts and no empty group of surfaces
\* carries its name.
C23_PartsOwnSurface ==
    Cleaned =>
        /\ Childless = {}
        /\ \A g \in 1..Len(physical_groups), k \in 1..Len(aircraft_parts) :
              (physical_groups[g].dim = 2 /\ physical_groups[g].name = aircraft_parts[k].uid)
              => k \notin Childless

====
